---- MODULE Spec2Model ----
(***************************************************************************)
(* Model of MieltoCompressClient (src/src/index.ts): the compress entry    *)
(* point, the recursive executeWithRetry request/retry/backoff engine and  *)
(* the pure timing functions it uses.                                      *)
(*                                                                         *)
(* Texts are modelled by what the code reads of them: content strings and  *)
(* message texts by their length, response messages as character           *)
(* sequences (lower-cased and searched as the code does), thrown Errors by *)
(* their message template and the values interpolated into it.             *)
(* console.log calls are not modelled; console.warn is a log event.        *)
(***************************************************************************)
EXTENDS Integers, Sequences, FiniteSets, TLC

(***************************************************************************)
(* Bounds of the model                                                     *)
(***************************************************************************)
\* largest retry limit a client is constructed with
MaxRetriesBound == 3
\* number of compress calls that may exist on the one client
NumCalls == 2
\* the retry limit of the clients that are given a wider range of requests
\* and options
WideRetries == 3
\* the content lengths a timing function is evaluated at reach up to this
\* many blocks of 15000 characters
MaxBlocks == 3
\* number of evaluations of a timing function that are compared
NumEvaluations == 2
\* the largest attempt number the backoff function is evaluated at
MaxAttempt == 8
\* the largest number of messages the timeout function is evaluated at
MaxCount == 102
\* the retry limit of the clients that are given contents of a hundred
\* messages
WarnRetries == 2
\* the retry limit of the clients on which two calls are in flight together
ConcurrentRetries == 2
\* the retry limit of the clients whose configuration is updated during a call
ReconfigRetries == 2

Calls == 1..NumCalls

(***************************************************************************)
(* JavaScript values                                                       *)
(***************************************************************************)
\* the undefined value of an optional string field
Undefined == "undefined"

\* JavaScript truthiness of an optional string
Truthy(s) == s # Undefined /\ s # ""

Min(a, b) == IF a <= b THEN a ELSE b

\* Math.ceil(a / b) for a >= 0, b > 0
CeilDiv(a, b) == (a + b - 1) \div b

RECURSIVE Pow(_, _)
\* Math.pow(b, e) for integer e >= 0
Pow(b, e) == IF e <= 0 THEN 1 ELSE b * Pow(b, e - 1)

RECURSIVE SumLen(_)
\* content.reduce((acc, msg) => acc + msg.message.length, 0); the sum is
\* taken by halves, which keeps the evaluation of long arrays shallow
SumLen(msgs) ==
    IF msgs = <<>> THEN 0
    ELSE IF Len(msgs) = 1 THEN msgs[1].message
    ELSE LET half == Len(msgs) \div 2
         IN  SumLen(SubSeq(msgs, 1, half))
                + SumLen(SubSeq(msgs, half + 1, Len(msgs)))

(***************************************************************************)
(* Utility functions                                                       *)
(***************************************************************************)
getContentLength(content) ==
    IF content.kind = "string" THEN content.len ELSE SumLen(content.msgs)

getMessageCount(content) ==
    IF content.kind = "string" THEN 1 ELSE Len(content.msgs)

\* variant: each band of message counts starts again from the base timeout
calculateTimeoutBandsRestart(content) ==
    LET messageCount == getMessageCount(content)
        totalLength  == getContentLength(content)
        base == 10000
        byCount ==
            IF messageCount <= 10 THEN base + messageCount * 300
            ELSE IF messageCount <= 30
                 THEN base + (messageCount - 10) * 600
            ELSE IF messageCount <= 50
                 THEN base + (messageCount - 30) * 1000
            ELSE IF messageCount <= 100
                 THEN base + (messageCount - 50) * 300
            ELSE 120000
        lengthFactor == CeilDiv(totalLength, 10000)
    IN  Min(byCount + lengthFactor * 1000, 120000)

\* variant: the time for the characters is added after the cap
calculateTimeoutCapFirst(content) ==
    LET messageCount == getMessageCount(content)
        totalLength  == getContentLength(content)
        base == 10000
        byCount ==
            IF messageCount <= 10 THEN base + messageCount * 300
            ELSE IF messageCount <= 30
                 THEN base + 10 * 300 + (messageCount - 10) * 600
            ELSE IF messageCount <= 50
                 THEN base + 10 * 300 + 20 * 600 + (messageCount - 30) * 1000
            ELSE IF messageCount <= 100
                 THEN base + 10 * 300 + 20 * 600 + 20 * 1000
                           + (messageCount - 50) * 300
            ELSE 120000
        lengthFactor == CeilDiv(totalLength, 10000)
    IN  Min(byCount, 120000) + lengthFactor * 1000

calculateTimeout(content) ==
    LET messageCount == getMessageCount(content)
        totalLength  == getContentLength(content)
        base == 10000
        byCount ==
            IF messageCount <= 10 THEN base + messageCount * 300
            ELSE IF messageCount <= 30
                 THEN base + 10 * 300 + (messageCount - 10) * 600
            ELSE IF messageCount <= 50
                 THEN base + 10 * 300 + 20 * 600 + (messageCount - 30) * 1000
            ELSE IF messageCount <= 100
                 THEN base + 10 * 300 + 20 * 600 + 20 * 1000
                           + (messageCount - 50) * 300
            ELSE 120000
        lengthFactor == CeilDiv(totalLength, 10000)
    IN  Min(byCount + lengthFactor * 1000, 120000)

\* Math.min(baseDelay * Math.pow(factor, attempt - 1), maxDelay)
BackoffBase(attempt, baseDelay, maxDelay, factor) ==
    Min(baseDelay * Pow(factor, attempt - 1), maxDelay)

\* variant: the jitter is up to half of the delay
calculateRetryDelayHalfJitter(attempt, baseDelay, maxDelay, factor, r) ==
    LET delay == BackoffBase(attempt, baseDelay, maxDelay, factor)
    IN  delay + (r * 5 * delay) \div 10000

\* Math.floor(delay + Math.random() * 0.3 * delay), where Math.random() is
\* the draw r / 1000 with r in 0..999
calculateRetryDelay(attempt, baseDelay, maxDelay, factor, r) ==
    LET delay == BackoffBase(attempt, baseDelay, maxDelay, factor)
    IN  delay + (r * 3 * delay) \div 10000

\* variant: one minute per 10,000 characters
calculateProcessingDelayPer10k(contentLength) ==
    CeilDiv(contentLength, 10000) * 60000

calculateProcessingDelay(contentLength) ==
    CeilDiv(contentLength, 15000) * 60000

\* variant: 429 is not retried
isRetryableErrorOnly503(error) ==
    IF ~error.hasResponse THEN TRUE
    ELSE error.status = 503

\* variant: every server error is taken to be transient
isRetryableErrorAny5xx(error) ==
    IF ~error.hasResponse THEN TRUE
    ELSE error.status >= 500 \/ error.status = 429

\* variant: every error status is retried
isRetryableErrorAnyStatus(error) ==
    IF ~error.hasResponse THEN TRUE
    ELSE error.status >= 400

isRetryableError(error) ==
    IF ~error.hasResponse THEN TRUE
    ELSE error.status = 503 \/ error.status = 429

RECURSIVE FindUserId(_)
\* content.find(msg => msg.user_id)?.user_id; the first half of the array is
\* searched before the second, which keeps the evaluation of long arrays
\* shallow
FindUserId(msgs) ==
    IF msgs = <<>> THEN Undefined
    ELSE IF Len(msgs) = 1
    THEN IF Truthy(msgs[1].user_id) THEN msgs[1].user_id ELSE Undefined
    ELSE LET half  == Len(msgs) \div 2
             first == FindUserId(SubSeq(msgs, 1, half))
         IN  IF first # Undefined THEN first
             ELSE FindUserId(SubSeq(msgs, half + 1, Len(msgs)))

extractUserIdFromContent(content) ==
    IF content.kind = "string" THEN Undefined ELSE FindUserId(content.msgs)

(***************************************************************************)
(* Response messages: character sequences                                  *)
(***************************************************************************)
\* 'being processed'
Phrase ==
    <<"b", "e", "i", "n", "g", " ", "p", "r", "o", "c", "e", "s", "s",
      "e", "d">>

\* 'Content is Being Processed...'
MsgProcessing ==
    <<"C", "o", "n", "t", "e", "n", "t", " ", "i", "s", " ", "B", "e",
      "i", "n", "g", " ", "P", "r", "o", "c", "e", "s", "s", "e", "d", ".",
      ".", ".">>

\* 'sent to webhook'
MsgWebhook ==
    <<"s", "e", "n", "t", " ", "t", "o", " ", "w", "e", "b", "h", "o",
      "o", "k">>

LowerChar(ch) ==
    CASE ch = "B" -> "b"
      [] ch = "C" -> "c"
      [] ch = "P" -> "p"
      [] OTHER    -> ch

\* String.prototype.toLowerCase
toLowerCase(s) == [i \in 1..Len(s) |-> LowerChar(s[i])]

\* variant: the text is only looked for at the start
includesAtStart(s, sub) == Len(s) >= Len(sub) /\ SubSeq(s, 1, Len(sub)) = sub

\* String.prototype.includes
includes(s, sub) ==
    \E i \in 0..(Len(s) - Len(sub)) : SubSeq(s, i + 1, i + Len(sub)) = sub

\* an optional message field: def = FALSE is undefined
NoMessage == [def |-> FALSE, text |-> <<>>]
Message(t) == [def |-> TRUE, text |-> t]

(***************************************************************************)
(* What the transport can answer to one post                               *)
(***************************************************************************)
Body(st, m, c) == [status |-> st, message |-> m, content |-> c]

BodyFinal          == Body("success", NoMessage, "compressed")
BodyProcessing     == Body("success", Message(MsgProcessing), Undefined)
BodyWebhookAck     == Body("success", Message(MsgWebhook), Undefined)
BodyPending        == Body("pending", Message(MsgProcessing), Undefined)

\* bodies of 2xx responses
Bodies ==
    {BodyFinal, BodyProcessing, BodyWebhookAck, BodyPending}

\* the data of an error response: a string, or an ErrorResponse object
DataString(t) == [isString |-> TRUE, text |-> t]
DataDetail(t) == [isString |-> FALSE, text |-> t]

ErrorStatuses == {400, 401, 404, 429, 500, 502, 503}

\* an AxiosError that carries a response
ResponseError(st, d) ==
    [axios |-> TRUE, hasResponse |-> TRUE, status |-> st, data |-> d,
     code |-> "ERR_BAD_RESPONSE",
     message |-> <<"Request failed with status code", st>>]

\* an AxiosError without a response: code and message
NoResponseError(c, m) ==
    [axios |-> TRUE, hasResponse |-> FALSE, status |-> 0,
     data |-> DataString(""), code |-> c, message |-> <<m, 0>>]

TimeoutError == NoResponseError("ECONNABORTED", "timeout exceeded")
NetworkError == NoResponseError("ERR_NETWORK", "Network Error")

\* an exception that is not an AxiosError
PlainError(m) ==
    [axios |-> FALSE, hasResponse |-> FALSE, status |-> 0,
     data |-> DataString(""), code |-> "", message |-> <<m, 0>>]

ObserverError == PlainError("thrown by onRetry")

\* everything a post can reject with
Rejections ==
    {ResponseError(st, DataDetail("bad field")) : st \in ErrorStatuses}
        \cup {ResponseError(st, DataString("plain text")) : st \in {400, 500}}
        \cup {TimeoutError, NetworkError, PlainError("TypeError")}

(***************************************************************************)
(* Requests and client options                                             *)
(***************************************************************************)
Str(n)  == [kind |-> "string", len |-> n]
Msgs(m) == [kind |-> "messages", msgs |-> m]
\* a message object: the length of its text and its optional user_id
Msg(n, u) == [message |-> n, user_id |-> u]

Contents ==
    { Str(800000), Str(800001),
      Msgs(<<Msg(2, Undefined), Msg(3, "u1"), Msg(4, "u2")>>),
      Msgs(<<Msg(400000, Undefined), Msg(500000, Undefined)>>) }

\* CompressRequest
Requests ==
    [content : Contents, include_metadata : {TRUE},
     webhook_url : {Undefined, "https://hook"},
     user_id : {Undefined, "explicit"}]

\* an optional number that was not supplied
NoNumber == -1

\* CompressOptions, as far as the constructor reads them
OptionSets ==
    [timeout : {NoNumber}, maxRetries : 0..MaxRetriesBound,
     retryDelay : {NoNumber},
     onRetry : {"none", "returns", "throws"}]

\* Math.random() draws, in thousandths
JitterDraws == {0, 999}

\* new MieltoCompressClient(options): the retry configuration
ConstructRetryConfig(options) ==
    [maxRetries   |-> IF options.maxRetries = NoNumber THEN 10
                      ELSE options.maxRetries,
     initialDelay |-> IF options.retryDelay = NoNumber THEN 10000
                      ELSE options.retryDelay,
     maxDelay     |-> 600000,
     factor       |-> 2]

\* new MieltoCompressClient(options): the axios instance's default timeout
ConstructTimeout(options) ==
    IF options.timeout = NoNumber THEN 120000 ELSE options.timeout

\* options.apiKey, options.baseUrl: a property the object lacks is undefined
Option(options, name) ==
    IF name \in DOMAIN options THEN options[name] ELSE Undefined

Bearer(apiKey) == <<"Bearer ", apiKey>>
DefaultBaseUrl == "https://api.mielto.com"

\* new MieltoCompressClient(options): the Authorization header, which is
\* set only for a truthy apiKey
ConstructAuthorization(options) ==
    IF Truthy(Option(options, "apiKey"))
    THEN Bearer(Option(options, "apiKey")) ELSE <<>>

\* new MieltoCompressClient(options): the base URL of the axios instance
ConstructBaseURL(options) ==
    IF Option(options, "baseUrl") = Undefined THEN DefaultBaseUrl
    ELSE Option(options, "baseUrl")

(***************************************************************************)
(* Outcomes of a call and the events it performs                           *)
(***************************************************************************)
\* new Error(`...`): the template of the message and the interpolated values
NewError(t, a) == [new |-> TRUE, template |-> t, args |-> a]

NoResult     == [kind |-> "pending", value |-> [new |-> FALSE, template |-> "", args |-> <<>>]]
Returned(b)  == [kind |-> "returned", value |-> b]
Thrown(e)    == [kind |-> "thrown", value |-> e]
\* throw error: the caught exception itself
Rethrown(e)  == Thrown([new |-> FALSE, template |-> "", args |-> <<e>>])

TooLong         == "Content is too long ... Maximum allowed is 800,000"
StillProcessing == "Content is still being processed ... Please use webhook_url"
BadRequest      == "Bad Request: "
ServerError     == "Server Error: "
Unavailable     == "Service Unavailable: ... use webhook_url for async processing"
RequestTimeout  == "Request timeout after ... Consider using webhook_url"
RequestFailed   == "Request failed: "

SendEv(req, t, a)   == [ev |-> "send", body |-> req, timeout |-> t, attempt |-> a]
WaitEv(k, d)        == [ev |-> "wait", kind |-> k, delay |-> d]
ObserverEv(a, st)   == [ev |-> "onRetry", attempt |-> a, status |-> st]
WarnEv              == [ev |-> "warn"]
\* what the awaited post settled with
ResponseEv(d)       == [ev |-> "response", data |-> d]
ErrorEv(e)          == [ev |-> "error", error |-> e]

(***************************************************************************)
(* State                                                                   *)
(***************************************************************************)
VARIABLES
    retryConfig,    \* this.retryConfig
    onRetry,        \* this.onRetry: "none", or how the installed observer ends
    clientTimeout,  \* this.client.defaults.timeout
    authorization,  \* this.client.defaults.headers['Authorization']
    baseURL,        \* this.client.defaults.baseURL
    pc,             \* per call: idle, init, sending, waiting, done
    argRequest,     \* per call: the request object the caller passed
    request,        \* per call: the request executeWithRetry was given
    timeout,        \* per call: the timeout executeWithRetry was given
    attempt,        \* per call: the attempt of the current executeWithRetry
    log,            \* per call: the sends and what they settled with, the
                    \* waits, the observer calls and the warnings, in order
    result,         \* per call: what compress returned or threw
    calc            \* the evaluations of a timing function made so far

clientVars == <<retryConfig, onRetry, clientTimeout, authorization, baseURL>>
callVars   == <<pc, argRequest, request, timeout, attempt, log, result>>
vars       == <<retryConfig, onRetry, clientTimeout, authorization, baseURL,
                pc, argRequest, request, timeout, attempt, log, result, calc>>

AnyRequest == CHOOSE r \in Requests : TRUE

\* no timing function has been evaluated
NoCalc == <<>>

\* a client just constructed with one of optionSets; call 1 is about to run
\* with one of requests, the other calls do not exist
InitFrom(optionSets, requests) ==
    /\ \E options \in optionSets :
          /\ retryConfig = ConstructRetryConfig(options)
          /\ onRetry = options.onRetry
          /\ clientTimeout = ConstructTimeout(options)
          /\ authorization = ConstructAuthorization(options)
          /\ baseURL = ConstructBaseURL(options)
    /\ pc = [c \in Calls |-> IF c = 1 THEN "init" ELSE "idle"]
    /\ \E r \in requests :
          argRequest = [c \in Calls |-> IF c = 1 THEN r ELSE AnyRequest]
    /\ request = argRequest
    /\ timeout = [c \in Calls |-> 0]
    /\ attempt = [c \in Calls |-> 1]
    /\ log = [c \in Calls |-> <<>>]
    /\ result = [c \in Calls |-> NoResult]
    /\ calc = NoCalc

Init == InitFrom(OptionSets, Requests)

\* a wider range of contents, user_ids and options, for one retry limit
WideContents ==
    { Str(800000),
      Msgs(<<Msg(2, Undefined), Msg(3, "u1"), Msg(4, "u2")>>),
      Msgs(<<Msg(5, "u2"), Msg(6, "u1")>>),
      Msgs(<<Msg(2, ""), Msg(3, Undefined)>>) }

WideRequests ==
    [content : WideContents, include_metadata : {TRUE},
     webhook_url : {Undefined},
     user_id : {Undefined, "", "explicit"}]

WideOptionSets ==
    [timeout : {NoNumber, 300000}, maxRetries : {WideRetries},
     retryDelay : {NoNumber, 60000},
     onRetry : {"returns"}]

InitWide == InitFrom(WideOptionSets, WideRequests)

(***************************************************************************)
(* compress                                                                *)
(***************************************************************************)
\* variant: a content of exactly the maximum length is refused
ExceedsMaximumInclusive(contentLength) == contentLength >= 800000

\* contentLength > 800000
ExceedsMaximum(contentLength) == contentLength > 800000

\* variant: a user_id found in the content replaces the one of the request
WithUserIdFromContent(req) ==
    IF Truthy(extractUserIdFromContent(req.content))
    THEN [req EXCEPT !.user_id = extractUserIdFromContent(req.content)]
    ELSE req

\* the request with the user_id of the content attached when it has none
WithUserId(req) ==
    IF ~Truthy(req.user_id) /\ Truthy(extractUserIdFromContent(req.content))
    THEN [req EXCEPT !.user_id = extractUserIdFromContent(req.content)]
    ELSE req

\* variant: a hundred messages are warned about as well
WarnsFrom100(messageCount, req) ==
    messageCount >= 100 /\ ~Truthy(req.webhook_url)

\* messageCount > 100 && !request.webhook_url
Warns(messageCount, req) ==
    messageCount > 100 /\ ~Truthy(req.webhook_url)

\* compress(request), up to the first post of executeWithRetry
Compress(c) ==
    /\ pc[c] = "init"
    /\ LET contentLength == getContentLength(argRequest[c].content)
           messageCount  == getMessageCount(argRequest[c].content)
           req           == WithUserId(argRequest[c])
           t             == calculateTimeout(req.content)
           warning       == IF Warns(messageCount, req)
                            THEN <<WarnEv>> ELSE <<>>
       IN  IF ExceedsMaximum(contentLength)
           THEN /\ result' = [result EXCEPT
                                ![c] = Thrown(NewError(TooLong, <<contentLength>>))]
                /\ pc' = [pc EXCEPT ![c] = "done"]
                /\ request' = [request EXCEPT ![c] = req]
                /\ UNCHANGED <<timeout, attempt, log>>
           ELSE /\ request' = [request EXCEPT ![c] = req]
                /\ timeout' = [timeout EXCEPT ![c] = t]
                /\ attempt' = [attempt EXCEPT ![c] = 1]
                /\ log' = [log EXCEPT ![c] = warning \o <<SendEv(req, t, 1)>>]
                /\ pc' = [pc EXCEPT ![c] = "sending"]
                /\ UNCHANGED result
    /\ UNCHANGED <<clientVars, argRequest>>

(***************************************************************************)
(* executeWithRetry                                                        *)
(***************************************************************************)
\* variant: the message is not looked at
IsProcessingAnySuccess(data) == data.status = "success"

\* variant: the message is searched as it came, without lower-casing
IsProcessingCaseSensitive(data) ==
    /\ data.status = "success"
    /\ data.message.def /\ data.message.text # <<>>
    /\ includes(data.message.text, Phrase)

\* the test that takes a 2xx response for a notice that work is going on
IsProcessing(data) ==
    /\ data.status = "success"
    /\ data.message.def /\ data.message.text # <<>>
    /\ includes(toLowerCase(data.message.text), Phrase)

\* variant: the limit is the one the client was constructed with
RetriesLeftAsConstructed(a, config) == a < ReconfigRetries

\* variant: the limit counts retries, not attempts
RetriesLeftInclusive(a, config) == a <= config.maxRetries

\* attempt < this.retryConfig.maxRetries
RetriesLeft(a, config) == a < config.maxRetries

\* variant: the call settles while a timer for a resend is still pending
FinishTimerPending(c, recv, res) ==
    /\ log' = [log EXCEPT ![c] = @ \o <<recv>>]
    /\ result' = [result EXCEPT ![c] = res]
    /\ pc' = [pc EXCEPT ![c] = "waiting"]
    /\ UNCHANGED attempt

\* the call ends: compress returns or throws
Finish(c, recv, res) ==
    /\ log' = [log EXCEPT ![c] = @ \o <<recv>>]
    /\ result' = [result EXCEPT ![c] = res]
    /\ pc' = [pc EXCEPT ![c] = "done"]
    /\ UNCHANGED attempt

\* variant: what the observer throws is swallowed and the call goes on
NotifyAndWaitSwallowing(c, recv, status, kind, delay) ==
    /\ log' = [log EXCEPT ![c] = @ \o <<recv>> \o
                 (IF onRetry = "none" THEN <<>>
                  ELSE <<ObserverEv(attempt[c], status)>>)
                 \o <<WaitEv(kind, delay)>>]
    /\ pc' = [pc EXCEPT ![c] = "waiting"]
    /\ UNCHANGED <<result, attempt>>

\* variant: the observer is told the attempt of the send to come
NotifyNextAttempt(c, recv, status, kind, delay) ==
    IF onRetry = "throws"
    THEN /\ log' = [log EXCEPT ![c] = @ \o <<recv, ObserverEv(attempt[c] + 1, status)>>]
         /\ result' = [result EXCEPT ![c] = Rethrown(ObserverError)]
         /\ pc' = [pc EXCEPT ![c] = "done"]
         /\ UNCHANGED attempt
    ELSE /\ log' = [log EXCEPT ![c] = @ \o <<recv>> \o
                      (IF onRetry = "none" THEN <<>>
                       ELSE <<ObserverEv(attempt[c] + 1, status)>>)
                      \o <<WaitEv(kind, delay)>>]
         /\ pc' = [pc EXCEPT ![c] = "waiting"]
         /\ UNCHANGED <<result, attempt>>

\* variant: a client with an observer calls it and resends without a wait
NotifyInsteadOfWait(c, recv, status, kind, delay) ==
    IF onRetry = "throws"
    THEN /\ log' = [log EXCEPT ![c] = @ \o <<recv, ObserverEv(attempt[c], status)>>]
         /\ result' = [result EXCEPT ![c] = Rethrown(ObserverError)]
         /\ pc' = [pc EXCEPT ![c] = "done"]
         /\ UNCHANGED attempt
    ELSE /\ log' = [log EXCEPT ![c] = @ \o <<recv>> \o
                      (IF onRetry = "none" THEN <<WaitEv(kind, delay)>>
                       ELSE <<ObserverEv(attempt[c], status)>>)]
         /\ pc' = [pc EXCEPT ![c] = "waiting"]
         /\ UNCHANGED <<result, attempt>>

\* if (this.onRetry) this.onRetry(attempt, ...); then the setTimeout promise
\* is awaited. An observer that throws ends the call with its exception.
NotifyAndWait(c, recv, status, kind, delay) ==
    IF onRetry = "throws"
    THEN /\ log' = [log EXCEPT ![c] = @ \o <<recv, ObserverEv(attempt[c], status)>>]
         /\ result' = [result EXCEPT ![c] = Rethrown(ObserverError)]
         /\ pc' = [pc EXCEPT ![c] = "done"]
         /\ UNCHANGED attempt
    ELSE /\ log' = [log EXCEPT ![c] = @ \o <<recv>> \o
                      (IF onRetry = "none" THEN <<>>
                       ELSE <<ObserverEv(attempt[c], status)>>)
                      \o <<WaitEv(kind, delay)>>]
         /\ pc' = [pc EXCEPT ![c] = "waiting"]
         /\ UNCHANGED <<result, attempt>>

\* typeof data === 'string' ? data : data.detail
ErrorMessageOf(data) == data.text

\* the catch block for an AxiosError that is not retried
NonRetryable(error, t) ==
    IF error.hasResponse /\ error.status = 400
    THEN NewError(BadRequest, <<ErrorMessageOf(error.data)>>)
    ELSE IF error.hasResponse /\ error.status = 500
    THEN NewError(ServerError, <<ErrorMessageOf(error.data)>>)
    ELSE IF error.hasResponse /\ error.status = 503
    THEN NewError(Unavailable, <<>>)
    ELSE IF error.code = "ECONNABORTED"
    THEN NewError(RequestTimeout, <<t>>)
    ELSE NewError(RequestFailed, <<error.message>>)

\* variant: a processing response is waited out with the exponential backoff
PostResolvesBackoff(c, data) ==
    /\ pc[c] = "sending"
    /\ IF IsProcessing(data)
       THEN IF RetriesLeft(attempt[c], retryConfig)
            THEN NotifyAndWait(c, ResponseEv(data), 200, "processing",
                     calculateRetryDelay(attempt[c], retryConfig.initialDelay,
                         retryConfig.maxDelay, retryConfig.factor, 0))
            ELSE Finish(c, ResponseEv(data),
                        Thrown(NewError(StillProcessing,
                                        <<retryConfig.maxRetries>>)))
       ELSE Finish(c, ResponseEv(data), Returned(data))
    /\ UNCHANGED <<clientVars, argRequest, request, timeout>>

\* the awaited post resolves with a 2xx response whose data is `data`
PostResolves(c, data) ==
    /\ pc[c] = "sending"
    /\ IF IsProcessing(data)
       THEN IF RetriesLeft(attempt[c], retryConfig)
            THEN NotifyAndWait(c, ResponseEv(data), 200, "processing",
                     calculateProcessingDelay(getContentLength(request[c].content)))
            ELSE Finish(c, ResponseEv(data),
                        Thrown(NewError(StillProcessing,
                                        <<retryConfig.maxRetries>>)))
       ELSE Finish(c, ResponseEv(data), Returned(data))
    /\ UNCHANGED <<clientVars, argRequest, request, timeout>>

\* variant: the backoff grows with the errors of the call, not with its sends
PostRejectsOwnCounter(c, error, r) ==
    /\ pc[c] = "sending"
    /\ IF error.axios
       THEN IF isRetryableError(error) /\ RetriesLeft(attempt[c], retryConfig)
            THEN NotifyAndWait(c, ErrorEv(error), error.status, "backoff",
                     calculateRetryDelay(
                         Len(SelectSeq(log[c], LAMBDA e : e.ev = "error")) + 1,
                         retryConfig.initialDelay,
                         retryConfig.maxDelay, retryConfig.factor, r))
            ELSE Finish(c, ErrorEv(error),
                        Thrown(NonRetryable(error, timeout[c])))
       ELSE Finish(c, ErrorEv(error), Rethrown(error))
    /\ UNCHANGED <<clientVars, argRequest, request, timeout>>

\* variant: a long backoff is not waited out, the call gives up
PostRejectsGivesUp(c, error, r) ==
    /\ pc[c] = "sending"
    /\ IF error.axios
       THEN IF isRetryableError(error) /\ RetriesLeft(attempt[c], retryConfig)
               /\ r < 500
            THEN NotifyAndWait(c, ErrorEv(error), error.status, "backoff",
                     calculateRetryDelay(attempt[c], retryConfig.initialDelay,
                         retryConfig.maxDelay, retryConfig.factor, r))
            ELSE Finish(c, ErrorEv(error),
                        Thrown(NonRetryable(error, timeout[c])))
       ELSE Finish(c, ErrorEv(error), Rethrown(error))
    /\ UNCHANGED <<clientVars, argRequest, request, timeout>>

\* the awaited post rejects with `error`; r is the Math.random() draw
PostRejects(c, error, r) ==
    /\ pc[c] = "sending"
    /\ IF error.axios
       THEN IF isRetryableError(error) /\ RetriesLeft(attempt[c], retryConfig)
            THEN NotifyAndWait(c, ErrorEv(error), error.status, "backoff",
                     calculateRetryDelay(attempt[c], retryConfig.initialDelay,
                         retryConfig.maxDelay, retryConfig.factor, r))
            ELSE Finish(c, ErrorEv(error),
                        Thrown(NonRetryable(error, timeout[c])))
       ELSE Finish(c, ErrorEv(error), Rethrown(error))
    /\ UNCHANGED <<clientVars, argRequest, request, timeout>>

\* variant: the resend carries the request as the caller passed it
WaitElapsedCallersRequest(c) ==
    /\ pc[c] = "waiting"
    /\ attempt' = [attempt EXCEPT ![c] = @ + 1]
    /\ log' = [log EXCEPT ![c] = @ \o
                 <<SendEv(argRequest[c], timeout[c], attempt[c] + 1)>>]
    /\ pc' = [pc EXCEPT ![c] = "sending"]
    /\ UNCHANGED <<clientVars, argRequest, request, timeout, result>>

\* variant: the resend is made with the attempt of the send before it
WaitElapsedKeepsAttempt(c) ==
    /\ pc[c] = "waiting"
    /\ attempt' = attempt
    /\ log' = [log EXCEPT ![c] = @ \o
                 <<SendEv(request[c], timeout[c], attempt[c])>>]
    /\ pc' = [pc EXCEPT ![c] = "sending"]
    /\ UNCHANGED <<clientVars, argRequest, request, timeout, result>>

\* variant: the attempt is a counter of the client, shared by its calls
WaitElapsedSharedCounter(c) ==
    /\ pc[c] = "waiting"
    /\ attempt' = [d \in Calls |-> attempt[d] + 1]
    /\ log' = [log EXCEPT ![c] = @ \o
                 <<SendEv(request[c], timeout[c], attempt[c] + 1)>>]
    /\ pc' = [pc EXCEPT ![c] = "sending"]
    /\ UNCHANGED <<clientVars, argRequest, request, timeout, result>>

\* variant: a resend is left to the default timeout of the axios instance
WaitElapsedDefaultTimeout(c) ==
    /\ pc[c] = "waiting"
    /\ attempt' = [attempt EXCEPT ![c] = @ + 1]
    /\ log' = [log EXCEPT ![c] = @ \o
                 <<SendEv(request[c], clientTimeout, attempt[c] + 1)>>]
    /\ pc' = [pc EXCEPT ![c] = "sending"]
    /\ UNCHANGED <<clientVars, argRequest, request, timeout, result>>

\* variant: the promise around setTimeout is never resolved
WaitNeverResolves(c) ==
    /\ pc[c] = "waiting"
    /\ UNCHANGED vars

\* the setTimeout promise resolves: executeWithRetry(request, timeout, attempt + 1)
WaitElapsed(c) ==
    /\ pc[c] = "waiting"
    /\ attempt' = [attempt EXCEPT ![c] = @ + 1]
    /\ log' = [log EXCEPT ![c] = @ \o
                 <<SendEv(request[c], timeout[c], attempt[c] + 1)>>]
    /\ pc' = [pc EXCEPT ![c] = "sending"]
    /\ UNCHANGED <<clientVars, argRequest, request, timeout, result>>

Step(c) ==
    /\ \/ Compress(c)
       \/ \E data \in Bodies : PostResolves(c, data)
       \/ \E error \in Rejections, r \in JitterDraws : PostRejects(c, error, r)
       \/ WaitElapsed(c)
    /\ UNCHANGED calc

Next == \E c \in Calls : Step(c)

Spec == Init /\ [][Next]_vars

\* the event loop runs every continuation that is ready, every post settles
\* and every timer fires
FairSpec == Spec /\ \A c \in Calls : WF_vars(Step(c))

\* the same client and calls, started from the wider range of inputs
SpecWide == InitWide /\ [][Next]_vars

(***************************************************************************)
(* Reading the log of a call                                               *)
(***************************************************************************)
Max(a, b) == IF a >= b THEN a ELSE b

Started(c) == pc[c] \notin {"idle", "init"}
Done(c)    == pc[c] = "done"

EventsOf(c, kind) == SelectSeq(log[c], LAMBDA e : e.ev = kind)
NumSends(c) == Len(EventsOf(c, "send"))
NumWaits(c) == Len(EventsOf(c, "wait"))
NumObserverCalls(c) == Len(EventsOf(c, "onRetry"))

\* the log without the warnings
Trace(c) == SelectSeq(log[c], LAMBDA e : e.ev # "warn")

\* what the posts of the call settled with, in order
Received(c) == SelectSeq(log[c], LAMBDA e : e.ev \in {"response", "error"})

\* the number of posts issued up to position i of the log
SendsUpTo(c, i) ==
    Len(SelectSeq(SubSeq(log[c], 1, i), LAMBDA e : e.ev = "send"))

ThrewTemplate(c, t) ==
    /\ result[c].kind = "thrown"
    /\ result[c].value.new
    /\ result[c].value.template = t

ReturnedBody(c, d) == result[c].kind = "returned" /\ result[c].value = d

\* the messages that name webhook_url as the way out
SuggestsWebhook(t) == t \in {StillProcessing, Unavailable, RequestTimeout}

EffectiveLength(c) == getContentLength(argRequest[c].content)

\* a transient error: 503, 429 or no response at all
IsTransient(e) == e.axios /\ (~e.hasResponse \/ e.status \in {503, 429})

\* a final success body: it carries the compressed content
IsSuccessBody(d) == d.status = "success" /\ d.content # Undefined

\* a 4xx status other than 429
IsClientError(e) ==
    e.axios /\ e.hasResponse /\ e.status >= 400 /\ e.status <= 499 /\ e.status # 429

(***************************************************************************)
(* C1                                                                      *)
(***************************************************************************)
\* C1: with a retry limit of at least 1 a call never performs more than
\* maxRetries sends; with a limit of at most 1 a call that passes the length
\* check performs exactly one send.
C1_SendsBounded ==
    \A c \in Calls :
        Started(c) =>
            /\ retryConfig.maxRetries >= 1 => NumSends(c) <= retryConfig.maxRetries
            /\ (retryConfig.maxRetries <= 1 /\ EffectiveLength(c) <= 800000)
                   => NumSends(c) = 1

\* a call that used up a limit of at least 2
C1_Witness ==
    \E c \in Calls :
        /\ Done(c) /\ retryConfig.maxRetries >= 2
        /\ NumSends(c) = retryConfig.maxRetries

(***************************************************************************)
(* C2                                                                      *)
(***************************************************************************)
\* C2: when every post settles and every timer fires, every compress call
\* ends: it returns a response or throws.
C2_Terminates ==
    \A c \in Calls :
        (pc[c] = "init") ~>
            (pc[c] = "done" /\ result[c].kind \in {"returned", "thrown"})

\* a call that ended after two waits
C2_Witness ==
    \E c \in Calls : Done(c) /\ NumWaits(c) >= 2 /\ result[c].kind # "pending"

(***************************************************************************)
(* C3                                                                      *)
(***************************************************************************)
\* C3: a content longer than 800,000 is refused with the length failure
\* before anything is sent, awaited or reported; a content of at most 800,000
\* is not refused and is sent at least once.
C3_LengthCheck ==
    \A c \in Calls :
        Started(c) =>
            IF EffectiveLength(c) > 800000
            THEN /\ Done(c)
                 /\ ThrewTemplate(c, TooLong)
                 /\ result[c].value.args = <<EffectiveLength(c)>>
                 /\ log[c] = <<>>
            ELSE /\ ~ThrewTemplate(c, TooLong)
                 /\ NumSends(c) >= 1

\* a refused content of 800,001 characters
C3_Witness ==
    \E c \in Calls :
        /\ Done(c) /\ EffectiveLength(c) = 800001
        /\ ThrewTemplate(c, TooLong) /\ log[c] = <<>>

(***************************************************************************)
(* C4                                                                      *)
(***************************************************************************)
\* C4: a client-side timeout (ECONNABORTED) ends the call at once with the
\* timeout failure that suggests webhook_url: no observer call, wait or send
\* follows it, at any attempt.
C4_TimeoutEndsCall ==
    \A c \in Calls :
        \A i \in DOMAIN log[c] :
            (log[c][i].ev = "error" /\ log[c][i].error.code = "ECONNABORTED")
                => /\ i = Len(log[c])
                   /\ Done(c)
                   /\ ThrewTemplate(c, RequestTimeout)
                   /\ SuggestsWebhook(result[c].value.template)

(***************************************************************************)
(* C5                                                                      *)
(***************************************************************************)
\* the acknowledgment of a request that is delivered to a webhook: a success
\* body with a message and no content
IsAck(d) == d.status = "success" /\ d.message.def /\ d.content = Undefined

\* C5: when the request has a webhook_url and the first answer is an
\* acknowledgment, compress returns it after that one send, whatever the
\* message says.
C5_AckReturned ==
    \A c \in Calls :
        ( /\ Started(c) /\ Truthy(request[c].webhook_url)
          /\ Len(Trace(c)) >= 2
          /\ Trace(c)[2].ev = "response" /\ IsAck(Trace(c)[2].data) )
            => /\ Len(Trace(c)) = 2
               /\ Done(c)
               /\ ReturnedBody(c, Trace(c)[2].data)

(***************************************************************************)
(* C6                                                                      *)
(***************************************************************************)
\* every answer the call received is the success body that says the content
\* is being processed
AlwaysProcessing(c) ==
    /\ Received(c) # <<>>
    /\ \A i \in DOMAIN Received(c) :
          Received(c)[i].ev = "response" /\ Received(c)[i].data = BodyProcessing

\* every wait of the call is the size-proportional one:
\* ceil(length / 15000) minutes
WaitsAreProportional(c) ==
    \A i \in DOMAIN log[c] :
        log[c][i].ev = "wait" =>
            /\ log[c][i].kind = "processing"
            /\ log[c][i].delay = ((EffectiveLength(c) + 14999) \div 15000) * 60000

\* every send after the first comes right after a wait
ResendsFollowWaits(c) ==
    \A i \in DOMAIN log[c] :
        (log[c][i].ev = "send" /\ log[c][i].attempt > 1)
            => (i > 1 /\ log[c][i - 1].ev = "wait")

TransientThenSuccess(c) ==
    LET R == Received(c)
    IN  /\ R # <<>>
        /\ R[Len(R)].ev = "response" /\ IsSuccessBody(R[Len(R)].data)
        /\ \A i \in 1..(Len(R) - 1) : R[i].ev = "error" /\ IsTransient(R[i].error)

\* C7: with an observer that does not throw, a transient error received
\* while the attempt is below maxRetries is followed by a wait and a resend;
\* and when k transient errors are followed by a final success body the call
\* has made k + 1 sends and k backoff waits, has called the observer (if there
\* is one) k times with attempts 1..k in order, and returns that body.
C7_TransientThenSuccess ==
    \A c \in Calls :
        (Started(c) /\ onRetry # "throws") =>
            /\ \A i \in DOMAIN log[c] :
                  ( /\ log[c][i].ev = "error" /\ IsTransient(log[c][i].error)
                    /\ SendsUpTo(c, i) < retryConfig.maxRetries )
                      => /\ i < Len(log[c])
                         /\ ~Done(c) \/ SendsUpTo(c, Len(log[c])) > SendsUpTo(c, i)
            /\ TransientThenSuccess(c) =>
                  LET k == Len(Received(c)) - 1
                  IN  /\ Done(c)
                      /\ NumSends(c) = k + 1
                      /\ NumWaits(c) = k
                      /\ \A i \in DOMAIN log[c] :
                            log[c][i].ev = "wait" => log[c][i].kind = "backoff"
                      /\ ResendsFollowWaits(c)
                      /\ onRetry = "returns" =>
                            [i \in 1..k |-> EventsOf(c, "onRetry")[i].attempt]
                                = [i \in 1..k |-> i]
                      /\ NumObserverCalls(c) = IF onRetry = "returns" THEN k ELSE 0
                      /\ ReturnedBody(c, Received(c)[k + 1].data)

\* two transient errors, one of them a 429, then the success body, observed
C7_Witness ==
    \E c \in Calls :
        /\ Done(c) /\ onRetry = "returns" /\ TransientThenSuccess(c)
        /\ Len(Received(c)) = 3
        /\ \E i \in 1..2 : Received(c)[i].error.status = 429
        /\ ReturnedBody(c, BodyFinal)

(***************************************************************************)
(* C8                                                                      *)
(***************************************************************************)
\* C8: when the first post is answered by a final success body, the call is
\* over after that one send: no observer call, no wait, no resend, and the
\* body is returned as it came.
C8_FirstSuccess ==
    \A c \in Calls :
        ( /\ Started(c) /\ Len(Trace(c)) >= 2
          /\ Trace(c)[2].ev = "response" /\ IsSuccessBody(Trace(c)[2].data) )
            => /\ Done(c)
               /\ Trace(c) = <<SendEv(request[c], timeout[c], 1),
                               ResponseEv(Trace(c)[2].data)>>
               /\ ReturnedBody(c, Trace(c)[2].data)

\* a call answered at once
C8_Witness ==
    \E c \in Calls :
        /\ Done(c) /\ NumSends(c) = 1 /\ Len(Received(c)) = 1
        /\ ReturnedBody(c, BodyFinal)

(***************************************************************************)
(* C9                                                                      *)
(***************************************************************************)
\* C9: a 4xx response other than 429 is the last event of its call, at any
\* attempt: the call throws, and for a 400 it throws the bad-request failure.
C9_ClientErrorEndsCall ==
    \A c \in Calls :
        \A i \in DOMAIN log[c] :
            (log[c][i].ev = "error" /\ IsClientError(log[c][i].error))
                => /\ i = Len(log[c])
                   /\ Done(c)
                   /\ result[c].kind = "thrown" /\ result[c].value.new
                   /\ log[c][i].error.status = 400
                         => ThrewTemplate(c, BadRequest)

\* a 404 that arrived on a later attempt, while retries were left
C9_Witness ==
    \E c \in Calls :
        /\ Done(c) /\ NumSends(c) >= 2 /\ NumSends(c) < retryConfig.maxRetries
        /\ log[c][Len(log[c])].ev = "error"
        /\ log[c][Len(log[c])].error.status = 404

(***************************************************************************)
(* C10                                                                     *)
(***************************************************************************)
\* the failure thrown by the call has the text interpolated into its message
CarriesDetail(c, text) ==
    /\ result[c].kind = "thrown" /\ result[c].value.new
    /\ result[c].value.template \in {BadRequest, ServerError}
    /\ result[c].value.args = <<text>>

\* C10: the failure thrown for a 4xx response other than 429 carries the
\* detail text of the response body.
C10_DetailCarried ==
    \A c \in Calls :
        \A i \in DOMAIN log[c] :
            (Done(c) /\ log[c][i].ev = "error" /\ IsClientError(log[c][i].error))
                => CarriesDetail(c, log[c][i].error.data.text)

(***************************************************************************)
(* C11                                                                     *)
(***************************************************************************)
\* the last post of the call was answered by a 503, a 429 or a connection
\* failure, and no retry was left
ExhaustedOnTransient(c) ==
    /\ Done(c) /\ log[c] # <<>>
    /\ log[c][Len(log[c])].ev = "error"
    /\ IsTransient(log[c][Len(log[c])].error)
    /\ log[c][Len(log[c])].error.code # "ECONNABORTED"
    /\ NumSends(c) >= retryConfig.maxRetries

\* C11: a call whose retries are used up on a 503, a 429 or a connection
\* failure throws the service-unavailable failure, which suggests webhook_url.
C11_ExhaustedIsUnavailable ==
    \A c \in Calls :
        ExhaustedOnTransient(c)
            => /\ ThrewTemplate(c, Unavailable)
               /\ SuggestsWebhook(result[c].value.template)

(***************************************************************************)
(* C12                                                                     *)
(***************************************************************************)
\* the two characters are the same letter, whatever their case
SameLetter(a, b) ==
    a = b \/ <<a, b>> \in {<<"B", "b">>, <<"C", "c">>, <<"P", "p">>}

\* the body has status "success" and a message in which 'being processed'
\* occurs, in any case
SaysBeingProcessed(d) ==
    /\ d.status = "success"
    /\ d.message.def
    /\ \E k \in 0..(Len(d.message.text) - Len(Phrase)) :
          \A j \in 1..Len(Phrase) : SameLetter(d.message.text[k + j], Phrase[j])

\* C12: a 2xx response that says 'being processed' is not returned: an
\* observer call, a wait or a thrown failure follows it; every other 2xx
\* response ends the call and is returned as it came, with nothing after it.
C12_ClassifiedByMessage ==
    \A c \in Calls :
        \A i \in DOMAIN log[c] :
            log[c][i].ev = "response" =>
                IF SaysBeingProcessed(log[c][i].data)
                THEN IF i < Len(log[c])
                     THEN log[c][i + 1].ev \in {"onRetry", "wait"}
                     ELSE Done(c) /\ result[c].kind = "thrown"
                ELSE /\ i = Len(log[c])
                     /\ Done(c)
                     /\ ReturnedBody(c, log[c][i].data)

\* a mixed-case 'Being Processed' answer was waited on, and then a body with
\* the same message but another status was returned
C12_Witness ==
    \E c \in Calls :
        /\ Done(c) /\ ReturnedBody(c, BodyPending)
        /\ Len(Received(c)) = 2
        /\ Received(c)[1].ev = "response" /\ Received(c)[1].data = BodyProcessing
        /\ NumWaits(c) = 1

(***************************************************************************)
(* C13                                                                     *)
(***************************************************************************)
\* C13: what compress returns is the body of the last response and does not
\* say 'being processed'.
C13_NeverReturnsProcessing ==
    \A c \in Calls :
        result[c].kind = "returned"
            => /\ ~SaysBeingProcessed(result[c].value)
               /\ log[c][Len(log[c])] = ResponseEv(result[c].value)

\* a call that polled once and then returned the compressed content
C13_Witness ==
    \E c \in Calls :
        /\ ReturnedBody(c, BodyFinal)
        /\ \E i \in DOMAIN log[c] :
              log[c][i].ev = "wait" /\ log[c][i].kind = "processing"

\* the user_id of the first message, in order, whose user_id is not empty
FirstWithUserId(msgs) ==
    LET having == {i \in 1..Len(msgs) : msgs[i].user_id \notin {Undefined, ""}}
    IN  IF having = {} THEN Undefined
        ELSE msgs[CHOOSE i \in having : \A j \in having : i <= j].user_id

\* the user_id a call is to send: the explicit one, else the first of the
\* messages, else what the request had
ExpectedUserId(c) ==
    LET req == argRequest[c]
    IN  IF req.user_id \notin {Undefined, ""} THEN req.user_id
        ELSE IF req.content.kind = "messages"
                /\ FirstWithUserId(req.content.msgs) # Undefined
        THEN FirstWithUserId(req.content.msgs)
        ELSE req.user_id

\* C14: every send of a call, the first and every resend, carries the explicit
\* user_id of the request if it has a non-empty one, else the user_id of the
\* first message that has a non-empty one, else no user_id is added
C14_UserIdSent ==
    \A c \in Calls : \A i \in 1..Len(log[c]) :
        log[c][i].ev = "send" =>
            /\ log[c][i].body.user_id = ExpectedUserId(c)
            /\ log[c][i].body.content = argRequest[c].content

\* a call without explicit user_id whose second message is the first with a
\* user_id was sent three times with that user_id
C14_Witness ==
    \E c \in Calls :
        /\ Done(c) /\ NumSends(c) = 3
        /\ argRequest[c].user_id = Undefined
        /\ argRequest[c].content =
              Msgs(<<Msg(2, Undefined), Msg(3, "u1"), Msg(4, "u2")>>)
        /\ \A i \in 1..Len(log[c]) :
              log[c][i].ev = "send" => log[c][i].body.user_id = "u1"

(***************************************************************************)
(* updateConfig, and one request run twice on one client: call 1 before    *)
(* an observer is installed, call 2 after, against a transport that        *)
(* settles the posts of call 2 as it settled those of call 1               *)
(***************************************************************************)
\* variant: maxRetries and retryDelay are applied only if truthy
UpdateConfigTruthy(options) ==
    /\ clientTimeout' = IF options.timeout # NoNumber /\ options.timeout # 0
                        THEN options.timeout ELSE clientTimeout
    /\ retryConfig' =
          [retryConfig EXCEPT
             !.maxRetries   = IF options.maxRetries # NoNumber
                                 /\ options.maxRetries # 0
                              THEN options.maxRetries ELSE @,
             !.initialDelay = IF options.retryDelay # NoNumber
                                 /\ options.retryDelay # 0
                              THEN options.retryDelay ELSE @]
    /\ onRetry' = IF options.onRetry # "none" THEN options.onRetry ELSE onRetry
    /\ authorization' = IF Truthy(Option(options, "apiKey"))
                        THEN Bearer(Option(options, "apiKey"))
                        ELSE authorization
    /\ baseURL' = IF Truthy(Option(options, "baseUrl"))
                  THEN Option(options, "baseUrl") ELSE baseURL
    /\ UNCHANGED <<callVars, calc>>

\* updateConfig(options): timeout is applied if truthy, maxRetries,
\* retryDelay and onRetry if not undefined
UpdateConfig(options) ==
    /\ clientTimeout' = IF options.timeout # NoNumber /\ options.timeout # 0
                        THEN options.timeout ELSE clientTimeout
    /\ retryConfig' =
          [retryConfig EXCEPT
             !.maxRetries   = IF options.maxRetries # NoNumber
                              THEN options.maxRetries ELSE @,
             !.initialDelay = IF options.retryDelay # NoNumber
                              THEN options.retryDelay ELSE @]
    /\ onRetry' = IF options.onRetry # "none" THEN options.onRetry ELSE onRetry
    /\ authorization' = IF Truthy(Option(options, "apiKey"))
                        THEN Bearer(Option(options, "apiKey"))
                        ELSE authorization
    /\ baseURL' = IF Truthy(Option(options, "baseUrl"))
                  THEN Option(options, "baseUrl") ELSE baseURL
    /\ UNCHANGED <<callVars, calc>>

\* updateConfig({ onRetry: (attempt, error) => { ... } })
ObserverOptions ==
    [timeout : {NoNumber}, maxRetries : {NoNumber}, retryDelay : {NoNumber},
     onRetry : {"returns"}]

\* clients constructed without an observer
UnobservedOptionSets ==
    [timeout : {NoNumber}, maxRetries : 0..MaxRetriesBound,
     retryDelay : {NoNumber}, onRetry : {"none"}]

UnobservedRequests ==
    [content : Contents, include_metadata : {TRUE},
     webhook_url : {Undefined}, user_id : {Undefined}]

\* both calls are made with the same request
InitObserver ==
    /\ \E options \in UnobservedOptionSets :
          /\ retryConfig = ConstructRetryConfig(options)
          /\ onRetry = options.onRetry
          /\ clientTimeout = ConstructTimeout(options)
          /\ authorization = ConstructAuthorization(options)
          /\ baseURL = ConstructBaseURL(options)
    /\ pc = [c \in Calls |-> "init"]
    /\ \E r \in UnobservedRequests : argRequest = [c \in Calls |-> r]
    /\ request = argRequest
    /\ timeout = [c \in Calls |-> 0]
    /\ attempt = [c \in Calls |-> 1]
    /\ log = [c \in Calls |-> <<>>]
    /\ result = [c \in Calls |-> NoResult]
    /\ calc = NoCalc

\* the position in the log of call c of what its k-th post settled with
ReceivedAt(c, k) ==
    CHOOSE i \in 1..Len(log[c]) :
        /\ log[c][i].ev \in {"response", "error"}
        /\ Len(SelectSeq(SubSeq(log[c], 1, i),
                         LAMBDA e : e.ev \in {"response", "error"})) = k

\* r is the Math.random() draw that call 1 got after its k-th post, if it
\* drew one
SameDraw(k, r) ==
    LET i == ReceivedAt(1, k)
    IN  (i < Len(log[1]) /\ log[1][i + 1].ev = "wait"
                         /\ log[1][i + 1].kind = "backoff")
           => log[1][i + 1].delay =
                 calculateRetryDelay(k, retryConfig.initialDelay,
                     retryConfig.maxDelay, retryConfig.factor, r)

\* a step of call c, whose k-th post settles as the k-th post of call 1 did
Replay(c) ==
    /\ \/ Compress(c)
       \/ /\ pc[c] = "sending"
          /\ LET k == Len(Received(c)) + 1
             IN  /\ k <= Len(Received(1))
                 /\ \/ /\ Received(1)[k].ev = "response"
                       /\ PostResolves(c, Received(1)[k].data)
                    \/ /\ Received(1)[k].ev = "error"
                       /\ \E r \in JitterDraws :
                             /\ SameDraw(k, r)
                             /\ PostRejects(c, Received(1)[k].error, r)
       \/ WaitElapsed(c)
    /\ UNCHANGED calc

NextObserver ==
    \/ Step(1)
    \/ /\ Done(1) /\ onRetry = "none"
       /\ \E options \in ObserverOptions : UpdateConfig(options)
    \/ /\ Done(1) /\ onRetry # "none"
       /\ Replay(2)

SpecObserver == InitObserver /\ [][NextObserver]_vars

\* the sends, what they settled with and the waits of a call, in order
SendsAndWaits(c) == SelectSeq(log[c], LAMBDA e : e.ev # "onRetry")

IsPrefix(s, t) == Len(s) <= Len(t) /\ SubSeq(t, 1, Len(s)) = s

\* C15: a call made with an observer that returns normally performs the same
\* sends and waits, against the same transport outcomes, as the call made with
\* the same request and configuration before the observer was installed, and
\* ends in the same outcome
C15_ObserverNoInfluence ==
    (Done(1) /\ onRetry = "returns") =>
        /\ NumObserverCalls(1) = 0
        /\ IsPrefix(SendsAndWaits(2), log[1])
        /\ Done(2) => /\ SendsAndWaits(2) = log[1]
                      /\ result[2] = result[1]

\* the observed call was told of a processing response and of an error, and
\* ended as the unobserved one
C15_Witness ==
    /\ Done(1) /\ Done(2)
    /\ result[2] = result[1]
    /\ NumObserverCalls(1) = 0
    /\ EventsOf(2, "onRetry") = <<ObserverEv(1, 200), ObserverEv(2, 503)>>
    /\ NumWaits(1) = 2

IsReceipt(e) == e.ev \in {"response", "error"}

\* the wait at position i of the log of call c comes after a send, what that
\* send settled with and one call of the observer with the attempt of that
\* send, and before the next send
RetryInOrder(c, i) ==
    /\ i >= 4
    /\ log[c][i - 3].ev = "send"
    /\ IsReceipt(log[c][i - 2])
    /\ log[c][i - 1].ev = "onRetry"
    /\ log[c][i - 1].attempt = log[c][i - 3].attempt
    /\ log[c][i - 1].attempt = SendsUpTo(c, i)
    /\ i < Len(log[c]) =>
          /\ log[c][i + 1].ev = "send"
          /\ log[c][i + 1].attempt = log[c][i - 1].attempt + 1

\* C16: with an observer that returns, every wait is preceded by the receipt
\* of a response or error and then one observer call with the attempt of the
\* send that failed, and followed by the next send; there is one observer call
\* per wait, numbered 1, 2, 3, ..., and none after the send that ends the call
C16_RetryEventOrder ==
    onRetry = "returns" =>
        \A c \in Calls :
            /\ \A i \in 1..Len(log[c]) :
                  /\ log[c][i].ev = "wait" => RetryInOrder(c, i)
                  /\ log[c][i].ev = "onRetry" =>
                        i < Len(log[c]) /\ log[c][i + 1].ev = "wait"
            /\ NumObserverCalls(c) = NumWaits(c)
            /\ \A k \in 1..NumObserverCalls(c) :
                  EventsOf(c, "onRetry")[k].attempt = k
            /\ (Done(c) /\ log[c] # <<>>) =>
                  /\ IsReceipt(log[c][Len(log[c])])
                  /\ NumObserverCalls(c) = NumSends(c) - 1

\* a call that was sent three times told its observer of attempts 1 and 2
C16_Witness ==
    /\ onRetry = "returns"
    /\ \E c \in Calls :
          /\ Done(c) /\ NumSends(c) = 3 /\ NumWaits(c) = 2
          /\ EventsOf(c, "onRetry")[1].attempt = 1
          /\ EventsOf(c, "onRetry")[2].attempt = 2
          /\ result[c].kind = "returned"

\* C17: every send of a call, the first and every resend after a wait of
\* either kind, is issued with the timeout calculateTimeout gives for the
\* content of the request
C17_SameTimeoutEverySend ==
    \A c \in Calls : \A i \in 1..Len(log[c]) :
        log[c][i].ev = "send" =>
            /\ log[c][i].timeout = calculateTimeout(argRequest[c].content)
            /\ log[c][i].timeout = EventsOf(c, "send")[1].timeout

\* three messages of nine characters were sent three times, after a
\* processing wait and after a backoff wait, each time with 11.9 s
C17_Witness ==
    \E c \in Calls :
        /\ getMessageCount(argRequest[c].content) = 3
        /\ EffectiveLength(c) = 9
        /\ NumSends(c) = 3
        /\ \E i, j \in 1..Len(log[c]) :
              /\ log[c][i].ev = "wait" /\ log[c][i].kind = "processing"
              /\ log[c][j].ev = "wait" /\ log[c][j].kind = "backoff"
        /\ \A i \in 1..Len(log[c]) :
              log[c][i].ev = "send" => log[c][i].timeout = 11900

\* C18: every send of a compress call is issued with the timeout of the
\* client, the one given to the constructor or to updateConfig
C18_ClientTimeoutApplied ==
    \A c \in Calls : \A i \in 1..Len(log[c]) :
        log[c][i].ev = "send" => log[c][i].timeout = clientTimeout

\* what the post before position i of the log of call c settled with
ReceiptBefore(c, i) ==
    log[c][CHOOSE j \in 1..(i - 1) :
              /\ IsReceipt(log[c][j])
              /\ \A k \in (j + 1)..(i - 1) : ~IsReceipt(log[c][k])]

\* one minute for every 15000 characters begun
MinutesFor(length) == (length + 14999) \div 15000

Lengths ==
    {0, 1} \cup {15000 * k + d : k \in 1..MaxBlocks, d \in {-1, 0, 1}}

\* a client of which only the timing function is used
InitCalc == InitFrom({CHOOSE o \in OptionSets : TRUE}, {AnyRequest})

\* calculateProcessingDelay(contentLength) is called and its result kept
Evaluate(contentLength) ==
    /\ Len(calc) < NumEvaluations
    /\ calc' = Append(calc, [length |-> contentLength,
                             delay  |-> calculateProcessingDelay(contentLength)])
    /\ UNCHANGED <<clientVars, callVars>>

NextCalc == \E contentLength \in Lengths : Evaluate(contentLength)

SpecCalc == InitCalc /\ [][NextCalc]_vars

\* C20: for every content length the processing delay is a positive multiple
\* of 60000 ms, and a longer content never gets a shorter delay
C20_PositiveMonotone ==
    /\ \A i \in 1..Len(calc) :
          calc[i].delay > 0 /\ calc[i].delay % 60000 = 0
    /\ \A i, j \in 1..Len(calc) :
          calc[i].length <= calc[j].length => calc[i].delay <= calc[j].delay

(***************************************************************************)
(* calculateRetryDelay as a function of the attempt, the base delay and    *)
(* the Math.random() draw                                                  *)
(***************************************************************************)
\* base delays: the default of the function, the default of the client, a
\* retryDelay of one millisecond and a retryDelay of zero
BaseDelays == {60000, 10000, 1, 0}

\* Math.random() draws, in thousandths: the smallest, the largest and two
\* between
Draws == {0, 1, 500, 999}

\* calculateRetryDelay(attempt, baseDelay, 600000, 2) is called once, with
\* the draw r, and its result kept
EvaluateBackoff(a, baseDelay, r) ==
    /\ calc = NoCalc
    /\ calc' = <<[attempt |-> a, baseDelay |-> baseDelay, maxDelay |-> 600000,
                  factor |-> 2, draw |-> r,
                  delay |-> calculateRetryDelay(a, baseDelay, 600000, 2, r)]>>
    /\ UNCHANGED <<clientVars, callVars>>

NextBackoff ==
    \E a \in 1..MaxAttempt, baseDelay \in BaseDelays, r \in Draws :
        EvaluateBackoff(a, baseDelay, r)

SpecBackoff == InitCalc /\ [][NextBackoff]_vars

RECURSIVE Times(_, _, _)
\* x multiplied n times by f
Times(x, f, n) == IF n = 0 THEN x ELSE Times(x * f, f, n - 1)

\* min(base x factor^(attempt-1), cap) of an evaluation
PreJitter(e) ==
    LET grown == Times(e.baseDelay, e.factor, e.attempt - 1)
    IN  IF grown < e.maxDelay THEN grown ELSE e.maxDelay

TotalLengths == {0, 1, 10001, 800000}

\* message counts: none, one, two, those around the ends of the bands (10,
\* 30, 50, 100) and the largest
Counts ==
    {0, 1, 2} \cup {b + d : b \in {10, 30, 50, 100}, d \in {-1, 0, 1}}
        \cup {MaxCount}

\* a content of n messages with totalLength characters in all
ContentOf(n, totalLength) ==
    Msgs([i \in 1..n |-> Msg(IF i = 1 THEN totalLength ELSE 0, Undefined)])

\* calculateTimeout(content) is called for a content of n messages and its
\* result kept; two calls are made
EvaluateTimeout(n, totalLength) ==
    /\ Len(calc) < 2
    /\ n = 0 => totalLength = 0
    /\ calc' = Append(calc,
                 [count |-> n, length |-> totalLength,
                  timeout |-> calculateTimeout(ContentOf(n, totalLength))])
    /\ UNCHANGED <<clientVars, callVars>>

\* calculateTimeout(content) is called for a string
EvaluateTimeoutOfString(totalLength) ==
    /\ Len(calc) < 2
    /\ calc' = Append(calc,
                 [count |-> 1, length |-> totalLength,
                  timeout |-> calculateTimeout(Str(totalLength))])
    /\ UNCHANGED <<clientVars, callVars>>

NextTimeout ==
    \/ \E n \in Counts, totalLength \in TotalLengths :
          EvaluateTimeout(n, totalLength)
    \/ \E totalLength \in TotalLengths : EvaluateTimeoutOfString(totalLength)

SpecTimeout == InitCalc /\ [][NextTimeout]_vars

\* the milliseconds the n-th message adds
PerMessage(n) ==
    IF n <= 10 THEN 300 ELSE IF n <= 30 THEN 600 ELSE IF n <= 50 THEN 1000
    ELSE 300

\* the blocks of 10000 characters begun
BlocksBegun(length) == (length + 9999) \div 10000

\* C22: the timeout never drops when the message count grows at a fixed total
\* length nor when the total length grows at a fixed message count; below the
\* ceiling one more message, up to 100, adds 300, 600, 1000 or 300 ms according
\* to its band, and every block of 10000 characters begun adds 1000 ms
C22_TimeoutMonotone ==
    \A i, j \in 1..Len(calc) :
        /\ (calc[i].length = calc[j].length /\ calc[i].count <= calc[j].count)
              => calc[i].timeout <= calc[j].timeout
        /\ (calc[i].count = calc[j].count /\ calc[i].length <= calc[j].length)
              => calc[i].timeout <= calc[j].timeout
        /\ (calc[i].length = calc[j].length /\ calc[j].count = calc[i].count + 1
               /\ calc[j].count <= 100 /\ calc[j].timeout < 120000)
              => calc[j].timeout = calc[i].timeout + PerMessage(calc[j].count)
        /\ (calc[i].count = calc[j].count /\ calc[i].timeout < 120000
               /\ calc[j].timeout < 120000)
              => calc[j].timeout - calc[i].timeout =
                    1000 * (BlocksBegun(calc[j].length)
                            - BlocksBegun(calc[i].length))

\* 30 and 31 messages of one character in all were evaluated: 26000 ms and
\* 27000 ms
C22_Witness ==
    /\ Len(calc) = 2
    /\ calc[1] = [count |-> 30, length |-> 1, timeout |-> 26000]
    /\ calc[2] = [count |-> 31, length |-> 1, timeout |-> 27000]

\* C23: no content gets a timeout above 120000 ms, and a content of more than
\* 100 messages gets exactly 120000 ms whatever its length
C23_TimeoutCeiling ==
    \A i \in 1..Len(calc) :
        /\ calc[i].timeout <= 120000
        /\ calc[i].count > 100 => calc[i].timeout = 120000

\* 101 messages were evaluated with no characters and with 800000, and 100
\* messages of 800000 characters reached the ceiling as well
C23_Witness ==
    /\ Len(calc) = 2
    /\ \/ /\ calc[1] = [count |-> 101, length |-> 0, timeout |-> 120000]
          /\ calc[2] = [count |-> 101, length |-> 800000, timeout |-> 120000]
       \/ /\ calc[1] = [count |-> 100, length |-> 800000, timeout |-> 120000]
          /\ calc[2] = [count |-> 100, length |-> 1, timeout |-> 61000]

(***************************************************************************)
(* One content of about a hundred messages compressed twice on one client: *)
(* call 1 without webhook_url, call 2 with one, against a transport that   *)
(* settles the posts of call 2 as it settled those of call 1               *)
(***************************************************************************)
\* 101 messages, 100 messages, and 101 messages that are too long
WarnContents ==
    {ContentOf(101, 1000), ContentOf(100, 1000), ContentOf(101, 800001)}

WarnOptionSets ==
    [timeout : {NoNumber}, maxRetries : {WarnRetries},
     retryDelay : {NoNumber}, onRetry : {"none"}]

InitWarn ==
    /\ \E options \in WarnOptionSets :
          /\ retryConfig = ConstructRetryConfig(options)
          /\ onRetry = options.onRetry
          /\ clientTimeout = ConstructTimeout(options)
          /\ authorization = ConstructAuthorization(options)
          /\ baseURL = ConstructBaseURL(options)
    /\ pc = [c \in Calls |-> "init"]
    /\ \E content \in WarnContents :
          argRequest =
             [c \in Calls |->
                [content |-> content, include_metadata |-> TRUE,
                 webhook_url |-> IF c = 1 THEN Undefined ELSE "https://hook",
                 user_id |-> Undefined]]
    /\ request = argRequest
    /\ timeout = [c \in Calls |-> 0]
    /\ attempt = [c \in Calls |-> 1]
    /\ log = [c \in Calls |-> <<>>]
    /\ result = [c \in Calls |-> NoResult]
    /\ calc = NoCalc

NextWarn ==
    \/ Step(1)
    \/ /\ Done(1)
       /\ Replay(2)

SpecWarn == InitWarn /\ [][NextWarn]_vars

\* the sends of a call without the webhook_url of their bodies, what they
\* settled with and the waits, in order
Shape(c) ==
    LET t == Trace(c)
    IN  [i \in 1..Len(t) |->
            IF t[i].ev = "send"
            THEN [t[i] EXCEPT !.body.webhook_url = Undefined]
            ELSE t[i]]

\* the warning is due: more than 100 messages, no webhook_url, and a content
\* that is not too long
WarningDue(c) ==
    /\ Len(argRequest[c].content.msgs) > 100
    /\ argRequest[c].webhook_url = Undefined
    /\ EffectiveLength(c) <= 800000

\* C24: a call warns once, before its first send, exactly when it has more
\* than 100 messages, no webhook_url and a content that passed the length
\* check, and never again on a retry; the call with webhook_url, which does
\* not warn, performs the same sends and waits against the same transport
\* outcomes as the call without, and ends in the same outcome
C24_WarningIsAdvisory ==
    /\ \A c \in Calls :
          /\ Len(EventsOf(c, "warn")) <= 1
          /\ \A i \in 1..Len(log[c]) : log[c][i].ev = "warn" => i = 1
          /\ Started(c) => (Len(EventsOf(c, "warn")) = 1 <=> WarningDue(c))
    /\ Done(1) =>
          /\ IsPrefix(Shape(2), Shape(1))
          /\ Done(2) => (Shape(2) = Shape(1) /\ result[2] = result[1])

\* the call without webhook_url warned, the one with webhook_url did not, and
\* both were sent twice and ended alike
C24_Witness ==
    /\ Done(1) /\ Done(2)
    /\ EventsOf(1, "warn") = <<WarnEv>>
    /\ EventsOf(2, "warn") = <<>>
    /\ NumSends(1) = 2 /\ NumSends(2) = 2
    /\ result[1] = result[2]

(***************************************************************************)
(* Two compress calls in flight on one client at the same time             *)
(***************************************************************************)
ConcurrentRequests ==
    [content : {Msgs(<<Msg(2, Undefined), Msg(3, "u1"), Msg(4, "u2")>>),
                Str(800000)},
     include_metadata : {TRUE}, webhook_url : {Undefined},
     user_id : {Undefined}]

ConcurrentOptionSets ==
    [timeout : {NoNumber}, maxRetries : {ConcurrentRetries},
     retryDelay : {NoNumber}, onRetry : {"returns"}]

\* two calls have been made and neither has run yet; further calls are not
\* made
InitConcurrent ==
    /\ \E options \in ConcurrentOptionSets :
          /\ retryConfig = ConstructRetryConfig(options)
          /\ onRetry = options.onRetry
          /\ clientTimeout = ConstructTimeout(options)
          /\ authorization = ConstructAuthorization(options)
          /\ baseURL = ConstructBaseURL(options)
    /\ pc = [c \in Calls |-> IF c <= 2 THEN "init" ELSE "idle"]
    /\ argRequest \in [Calls -> ConcurrentRequests]
    /\ request = argRequest
    /\ timeout = [c \in Calls |-> 0]
    /\ attempt = [c \in Calls |-> 1]
    /\ log = [c \in Calls |-> <<>>]
    /\ result = [c \in Calls |-> NoResult]
    /\ calc = NoCalc

\* what the posts of concurrent calls settle with: the result, a processing
\* notice, a 503, a 400, a 404 or a connection failure
ConcurrentBodies == {BodyFinal, BodyProcessing}
ConcurrentRejections ==
    {ResponseError(503, DataDetail("bad field")),
     ResponseError(400, DataDetail("bad field")),
     ResponseError(404, DataDetail("bad field")), NetworkError}

\* a step of call c, at any point of the other calls
ConcurrentStep(c) ==
    /\ \/ Compress(c)
       \/ \E data \in ConcurrentBodies : PostResolves(c, data)
       \/ \E error \in ConcurrentRejections : PostRejects(c, error, 0)
       \/ WaitElapsed(c)
    /\ UNCHANGED calc

NextConcurrent == \E c \in Calls : ConcurrentStep(c)

SpecConcurrent == InitConcurrent /\ [][NextConcurrent]_vars

\* C25: under every interleaving of the calls of one client, each call numbers
\* its own sends 1, 2, 3, ... and sends at most up to the retry limit, and two
\* calls made with the same request whose posts settled alike have the same
\* sends, observer calls and waits and the same result, however far the other
\* calls had got
C25_CallsDoNotInterfere ==
    /\ \A c \in Calls :
          /\ \A k \in 1..NumSends(c) : EventsOf(c, "send")[k].attempt = k
          /\ \A k \in 1..NumObserverCalls(c) :
                EventsOf(c, "onRetry")[k].attempt = k
          /\ Started(c) /\ log[c] # <<>> => attempt[c] = NumSends(c)
          /\ NumSends(c) <= Max(1, retryConfig.maxRetries)
    /\ \A c, d \in Calls :
          (argRequest[c] = argRequest[d]
             /\ IsPrefix(Received(c), Received(d))) =>
                /\ IsPrefix(log[c], log[d]) \/ IsPrefix(log[d], log[c])
                /\ Received(c) = Received(d) =>
                      /\ result[c] = result[d]
                      /\ Done(c) <=> Done(d)
                /\ Received(c) # Received(d) =>
                      ~Done(c) /\ IsPrefix(log[c], log[d])

\* call 1 waits after its first attempt while call 2, made with the same
\* request, is in its second send
C25_Witness ==
    /\ argRequest[1] = argRequest[2]
    /\ pc[1] = "waiting" /\ attempt[1] = 1
    /\ pc[2] = "sending" /\ attempt[2] = 2
    /\ NumSends(1) = 1 /\ NumSends(2) = 2

\* the sends of a call, what they settled with and the waits, in order
Skeleton(c) ==
    SelectSeq(log[c], LAMBDA e : e.ev \in {"send", "response", "error", "wait"})

\* the receipt is one that is retried: a processing notice before a
\* processing wait, a transient error before a backoff wait
Retried(receipt, wait) ==
    \/ /\ receipt.ev = "response" /\ SaysBeingProcessed(receipt.data)
       /\ wait.kind = "processing"
    \/ /\ receipt.ev = "error" /\ IsTransient(receipt.error)
       /\ wait.kind = "backoff"

\* C26: the log of a call is send, receipt, wait, send, receipt, wait, ...:
\* the k-th send has attempt k and, but for the first, directly follows a
\* wait; every wait directly follows the receipt of a processing notice or a
\* transient error of an attempt below the retry limit; at most one send is in
\* flight, and the call is sending, waiting or done according to its last event
C26_SendsAndWaitsAlternate ==
    \A c \in Calls :
        LET s == Skeleton(c)
        IN  /\ \A i \in 1..Len(s) :
                  /\ i % 3 = 1 => s[i].ev = "send" /\ s[i].attempt = (i + 2) \div 3
                  /\ i % 3 = 2 => IsReceipt(s[i])
                  /\ i % 3 = 0 =>
                        /\ s[i].ev = "wait"
                        /\ Retried(s[i - 1], s[i])
                        /\ s[i - 2].attempt < retryConfig.maxRetries
            /\ NumSends(c) - Len(Received(c)) \in {0, 1}
            /\ pc[c] = "sending" <=> (Len(s) % 3 = 1)
            /\ pc[c] = "waiting" <=> (Len(s) # 0 /\ Len(s) % 3 = 0)
            /\ Done(c) => (Len(s) = 0 \/ Len(s) % 3 = 2)
            /\ Started(c) /\ ~Done(c) => attempt[c] = NumSends(c)

\* a call in its third send, after a processing wait and a backoff wait
C26_Witness ==
    \E c \in Calls :
        /\ pc[c] = "sending" /\ attempt[c] = 3
        /\ Len(Skeleton(c)) = 7
        /\ Skeleton(c)[3].kind = "processing"
        /\ Skeleton(c)[6].kind = "backoff"

\* the kind of failure a finished call met, "none" if it met none
FailureKind(c) ==
    IF ~Done(c) THEN "none"
    ELSE IF log[c] = <<>> THEN "content too large"
    ELSE LET last == log[c][Len(log[c])]
         IN  IF last.ev = "response"
             THEN IF SaysBeingProcessed(last.data)
                  THEN "still-processing retries exhausted" ELSE "none"
             ELSE IF last.ev # "error" \/ ~last.error.axios THEN "other"
             ELSE IF last.error.code = "ECONNABORTED" THEN "client-side timeout"
             ELSE IF ~last.error.hasResponse THEN "connection failure"
             ELSE IF last.error.status \in {503, 429}
                  THEN "transient retries exhausted"
             ELSE IF last.error.status \in 400..499 THEN "bad request"
             ELSE "other"

ReconfigOptionSets ==
    [timeout : {NoNumber}, maxRetries : {ReconfigRetries},
     retryDelay : {NoNumber}, onRetry : {"none"}]

ReconfigRequests ==
    [content : {Msgs(<<Msg(2, Undefined), Msg(3, "u1"), Msg(4, "u2")>>)},
     include_metadata : {TRUE}, webhook_url : {Undefined},
     user_id : {Undefined}]

InitReconfig == InitFrom(ReconfigOptionSets, ReconfigRequests)

\* updateConfig({ maxRetries }), updateConfig({ retryDelay }) or both: the
\* limit is lowered to 1 or raised by one, the initial delay set to a minute
UpdateOptions ==
    [timeout : {NoNumber}, maxRetries : {NoNumber, 1, ReconfigRetries + 1},
     retryDelay : {NoNumber, 60000}, onRetry : {"none"}]

\* the caller updates the configuration while call 1 awaits a post or a timer
Reconfigure ==
    /\ pc[1] \in {"sending", "waiting"}
    /\ \E options \in UpdateOptions : UpdateConfig(options)

NextReconfig ==
    \/ \E c \in Calls : Step(c)
    \/ Reconfigure

SpecReconfig == InitReconfig /\ [][NextReconfig]_vars

\* the receipt is of a kind that is retried while retries are left
Retryable(receipt) ==
    \/ receipt.ev = "response" /\ SaysBeingProcessed(receipt.data)
    \/ receipt.ev = "error" /\ IsTransient(receipt.error)

\* delay is min(initialDelay x 2^(n-1), 600000) with a jitter below 30%
IsBackoffOf(delay, initialDelay, n) ==
    LET grown == Times(initialDelay, 2, n - 1)
        d     == IF grown < 600000 THEN grown ELSE 600000
    IN  d <= delay /\ 10 * delay < 13 * d

\* the step of call c, if it is the settling of a post, decided with the
\* retry limit and initial delay the client has at that moment
DecidedWithCurrentConfig(c) ==
    LET last == log'[c][Len(log'[c])]
    IN  /\ (pc[c] = "sending" /\ pc'[c] = "waiting") =>
              /\ attempt[c] < retryConfig.maxRetries
              /\ last.kind = "backoff" =>
                    IsBackoffOf(last.delay, retryConfig.initialDelay, attempt[c])
        /\ (pc[c] = "sending" /\ pc'[c] = "done" /\ Retryable(last)) =>
              attempt[c] >= retryConfig.maxRetries

\* C28: every retry decision of a call uses the retry limit and the initial
\* delay the client has when the post settles, whatever they were when the
\* call was made: it waits only if its attempt is below the current limit,
\* for a backoff computed from the current initial delay, and ends on a
\* retryable outcome only if its attempt has reached the current limit
C28_DecisionsUseCurrentConfig ==
    [][\A c \in Calls : DecidedWithCurrentConfig(c)]_vars

\* the call went one send beyond the limit the client was constructed with,
\* after a backoff of two minutes, twice the initial delay it was updated to
C28_Witness ==
    /\ Done(1)
    /\ NumSends(1) = ReconfigRetries + 1
    /\ retryConfig.maxRetries = ReconfigRetries + 1
    /\ \E i \in 1..Len(log[1]) : log[1][i] = WaitEv("backoff", 120000)

\* min(initialDelay x 2^(n-1), 600000), where n is the number of sends of call
\* c up to position i of its log
PreJitterAt(c, i) ==
    LET grown == Times(retryConfig.initialDelay, 2, SendsUpTo(c, i) - 1)
    IN  IF grown < 600000 THEN grown ELSE 600000

JitterRetries == 2

JitterOptionSets ==
    [timeout : {NoNumber}, maxRetries : {JitterRetries},
     retryDelay : {NoNumber, 60000}, onRetry : {"returns"}]

JitterRequests ==
    [content : {Msgs(<<Msg(2, Undefined), Msg(3, "u1")>>)},
     include_metadata : {TRUE}, webhook_url : {Undefined},
     user_id : {Undefined}]

\* both calls are made with the same request; calls beyond the second are
\* not made
InitJitter ==
    /\ \E options \in JitterOptionSets :
          /\ retryConfig = ConstructRetryConfig(options)
          /\ onRetry = options.onRetry
          /\ clientTimeout = ConstructTimeout(options)
          /\ authorization = ConstructAuthorization(options)
          /\ baseURL = ConstructBaseURL(options)
    /\ pc = [c \in Calls |-> IF c <= 2 THEN "init" ELSE "idle"]
    /\ \E r \in JitterRequests : argRequest = [c \in Calls |-> r]
    /\ request = argRequest
    /\ timeout = [c \in Calls |-> 0]
    /\ attempt = [c \in Calls |-> 1]
    /\ log = [c \in Calls |-> <<>>]
    /\ result = [c \in Calls |-> NoResult]
    /\ calc = NoCalc

\* Math.random() draws, in thousandths
FreeDraws == {0, 500, 999}

\* what the posts settle with: the result, a processing notice, a 503, a 429,
\* a connection failure or a 400
JitterBodies == {BodyFinal, BodyProcessing}
JitterRejections ==
    {ResponseError(503, DataDetail("bad field")),
     ResponseError(429, DataDetail("bad field")),
     ResponseError(400, DataDetail("bad field")), NetworkError}

\* a step of the first call
JitterStep(c) ==
    /\ \/ Compress(c)
       \/ \E data \in JitterBodies : PostResolves(c, data)
       \/ \E error \in JitterRejections, r \in FreeDraws :
             PostRejects(c, error, r)
       \/ WaitElapsed(c)
    /\ UNCHANGED calc

\* a step of call c, whose k-th post settles as the k-th post of call 1 did,
\* while Math.random() returns what it likes
ReplayAnyDraw(c) ==
    /\ \/ Compress(c)
       \/ /\ pc[c] = "sending"
          /\ LET k == Len(Received(c)) + 1
             IN  /\ k <= Len(Received(1))
                 /\ \/ /\ Received(1)[k].ev = "response"
                       /\ PostResolves(c, Received(1)[k].data)
                    \/ /\ Received(1)[k].ev = "error"
                       /\ \E r \in FreeDraws :
                             PostRejects(c, Received(1)[k].error, r)
       \/ WaitElapsed(c)
    /\ UNCHANGED calc

NextJitter ==
    \/ JitterStep(1)
    \/ (Done(1) /\ ReplayAnyDraw(2))

SpecJitter == InitJitter /\ [][NextJitter]_vars

\* the events of call c, with the length of its backoff waits left out
WithoutBackoffLengths(c) ==
    [i \in 1..Len(log[c]) |->
        IF log[c][i].ev = "wait" /\ log[c][i].kind = "backoff"
        THEN WaitEv("backoff", 0) ELSE log[c][i]]

\* C30: two calls with the same content and configuration, whose posts settle
\* in the same way, differ at most in the length of their backoff waits,
\* whatever jitter each draws: they send as often, report the same attempt
\* numbers to the observer and end with the same result or the same error
C30_JitterOnlyLengthens ==
    (Done(1) /\ Started(2)) =>
        /\ IsPrefix(WithoutBackoffLengths(2), WithoutBackoffLengths(1))
        /\ Done(2) =>
              /\ WithoutBackoffLengths(2) = WithoutBackoffLengths(1)
              /\ NumSends(2) = NumSends(1)
              /\ EventsOf(2, "onRetry") = EventsOf(1, "onRetry")
              /\ result[2] = result[1]

\* both calls have ended after a retry, and their backoff waits differ
C30_Witness ==
    /\ Done(1) /\ Done(2)
    /\ NumSends(1) = 2 /\ NumSends(2) = 2
    /\ Len(EventsOf(1, "onRetry")) = 1
    /\ EventsOf(1, "wait")[1].kind = "backoff"
    /\ EventsOf(2, "wait")[1].kind = "backoff"
    /\ EventsOf(1, "wait")[1].delay # EventsOf(2, "wait")[1].delay
    /\ result[1] = result[2]

(***************************************************************************)
(* C31                                                                     *)
(***************************************************************************)
\* a response with a 5xx status other than 503
IsOtherServerError(error) ==
    error.axios /\ error.hasResponse /\ error.status >= 500
                /\ error.status # 503

\* C31: a 5xx response other than 503 is the last event of its call, at
\* whatever attempt it arrives: nothing is reported to the observer, nothing
\* is waited for and nothing is sent after it, the call throws, and for a 500
\* it throws the server-error failure with the text the server gave
C31_ServerErrorEndsCall ==
    \A c \in Calls :
        \A i \in DOMAIN log[c] :
            (log[c][i].ev = "error" /\ IsOtherServerError(log[c][i].error))
                => /\ i = Len(log[c])
                   /\ Done(c)
                   /\ NumSends(c) = SendsUpTo(c, i)
                   /\ NumWaits(c) = NumSends(c) - 1
                   /\ NumObserverCalls(c) <= NumSends(c) - 1
                   /\ result[c].kind = "thrown" /\ result[c].value.new
                   /\ log[c][i].error.status = 500
                         => /\ ThrewTemplate(c, ServerError)
                            /\ result[c].value.args =
                                  <<log[c][i].error.data.text>>

\* a 500 that arrived on a later attempt, while retries were left, and whose
\* detail is in the failure
C31_Witness ==
    \E c \in Calls :
        /\ Done(c) /\ NumSends(c) >= 2 /\ NumSends(c) < retryConfig.maxRetries
        /\ log[c][Len(log[c])].ev = "error"
        /\ log[c][Len(log[c])].error.status = 500
        /\ result[c] = Thrown(NewError(ServerError, <<"bad field">>))

(***************************************************************************)
(* C32                                                                     *)
(***************************************************************************)
\* the promise of call c has settled: compress returned or threw
Settled(c) == result[c] # NoResult

\* C32: once a call has returned a response or thrown a failure it performs
\* no further send, wait or observer call: its events end with what its last
\* post settled with (or with the observer call that threw), and neither its
\* events nor its outcome change in any later step of the client
C32_TerminalIsAbsorbing ==
    [][\A c \in Calls :
          Settled(c) =>
             /\ Done(c)
             /\ log[c] # <<>> =>
                   log[c][Len(log[c])].ev \in {"response", "error", "onRetry"}
             /\ log'[c] = log[c]
             /\ result'[c] = result[c]
             /\ pc'[c] = pc[c]
             /\ attempt'[c] = attempt[c]]_vars

\* the first call threw after a retry; since then the observer was installed
\* and the second call has sent twice
C32_Witness ==
    /\ Done(1) /\ result[1].kind = "thrown" /\ NumSends(1) >= 2
    /\ onRetry = "returns"
    /\ pc[2] = "sending" /\ NumSends(2) = 2 /\ NumObserverCalls(2) = 1
    /\ NumObserverCalls(1) = 0

(***************************************************************************)
(* C33                                                                     *)
(***************************************************************************)
\* call c has ended at position i of its events by throwing exception e
\* itself, after as many waits as it had made resends
EndedRethrowing(c, i, e) ==
    /\ i = Len(log[c])
    /\ Done(c)
    /\ result[c] = Rethrown(e)
    /\ NumSends(c) = SendsUpTo(c, i)
    /\ NumWaits(c) = NumSends(c) - 1

\* C33: an exception that is not an axios error ends the call at once and is
\* what the caller gets, whatever the attempt and however many retries are
\* left: this holds for one that a post rejects with and for one that the
\* observer throws, be it told of a processing notice or of a transient error
C33_ForeignExceptionEndsCall ==
    \A c \in Calls :
        \A i \in DOMAIN log[c] :
            /\ (log[c][i].ev = "error" /\ ~log[c][i].error.axios)
                  => EndedRethrowing(c, i, log[c][i].error)
            /\ (log[c][i].ev = "onRetry" /\ onRetry = "throws")
                  => /\ EndedRethrowing(c, i, ObserverError)
                     /\ IsReceipt(log[c][i - 1])

\* the observer threw when told of a processing notice, while retries were
\* left
C33_Witness ==
    \E c \in Calls :
        /\ onRetry = "throws"
        /\ result[c] = Rethrown(ObserverError)
        /\ NumSends(c) < retryConfig.maxRetries
        /\ Len(log[c]) >= 2
        /\ log[c][Len(log[c])] = ObserverEv(attempt[c], 200)
        /\ log[c][Len(log[c]) - 1] = ResponseEv(BodyProcessing)

(***************************************************************************)
(* C34                                                                     *)
(***************************************************************************)
\* every send of call c carries the body of its first send, which is the
\* caller's request but for a user_id the caller left out
SameBodyEverySend(c) ==
    \A k \in 1..NumSends(c) :
        LET body == EventsOf(c, "send")[k].body
        IN  /\ body = EventsOf(c, "send")[1].body
            /\ body.content = argRequest[c].content
            /\ body.include_metadata = argRequest[c].include_metadata
            /\ body.webhook_url = argRequest[c].webhook_url
            /\ Truthy(argRequest[c].user_id)
                  => body.user_id = argRequest[c].user_id
            /\ body # argRequest[c]
                  => /\ ~Truthy(argRequest[c].user_id)
                     /\ body = [argRequest[c] EXCEPT !.user_id = body.user_id]

\* C34: no step of a call changes the request object that the caller passed,
\* and after every step all sends of the call so far carry one and the same
\* body: the caller's content, include_metadata and webhook_url, and the
\* caller's user_id or, when there is none, the one derived from the content
C34_RequestUntouched ==
    [][\A c \in Calls :
          /\ argRequest'[c] = argRequest[c]
          /\ SameBodyEverySend(c)']_vars

\* a user_id was derived and sent three times, and the caller's request is
\* still without one
C34_Witness ==
    \E c \in Calls :
        /\ NumSends(c) = 3
        /\ argRequest[c].user_id = Undefined
        /\ request[c] # argRequest[c]
        /\ \A k \in 1..3 :
              EventsOf(c, "send")[k].body =
                 [argRequest[c] EXCEPT !.user_id = "u1"]

\* ---------------------------------------------------------------------
\* A client that is reconfigured again and again
\* ---------------------------------------------------------------------

\* what the clients are constructed with
ConfiguredOptionSets ==
    [apiKey : {Undefined, "k1"}, baseUrl : {"https://a"},
     timeout : {30000}, maxRetries : {2},
     retryDelay : {20000}, onRetry : {"none", "returns"}]

InitConfigured == InitFrom(ConfiguredOptionSets, {AnyRequest})

\* each setting of the argument of updateConfig is missing, falsy or given
AllPartialOptions ==
    [apiKey : {Undefined, "", "k2"}, baseUrl : {Undefined, "", "https://b"},
     timeout : {NoNumber, 0, 60000}, maxRetries : {NoNumber, 0, 5},
     retryDelay : {NoNumber, 0, 5000}, onRetry : {"none", "throws"}]

NoOptions ==
    [apiKey |-> Undefined, baseUrl |-> Undefined, timeout |-> NoNumber,
     maxRetries |-> NoNumber, retryDelay |-> NoNumber, onRetry |-> "none"]

\* the arguments of updateConfig: those with at most two settings, and
\* those in which no setting is missing
PartialOptions ==
    {o \in AllPartialOptions :
        \/ Cardinality({name \in DOMAIN o : o[name] # NoOptions[name]}) <= 2
        \/ \A name \in DOMAIN o : o[name] # NoOptions[name]}

NextConfigured == \E options \in PartialOptions : UpdateConfig(options)

SpecConfigured == InitConfigured /\ [][NextConfigured]_vars

(***************************************************************************)
(* C35                                                                     *)
(***************************************************************************)
\* the step changes the client as far as options says, and nothing else
OnlySupplied(options) ==
    /\ retryConfig'.maxRetries =
          IF options.maxRetries = NoNumber THEN retryConfig.maxRetries
          ELSE options.maxRetries
    /\ retryConfig'.initialDelay =
          IF options.retryDelay = NoNumber THEN retryConfig.initialDelay
          ELSE options.retryDelay
    /\ onRetry' = IF options.onRetry = "none" THEN onRetry
                  ELSE options.onRetry
    /\ options.apiKey \in {Undefined, ""} => authorization' = authorization
    /\ options.baseUrl \in {Undefined, ""} => baseURL' = baseURL
    /\ options.timeout \in {NoNumber, 0} => clientTimeout' = clientTimeout
    /\ retryConfig'.maxDelay = retryConfig.maxDelay
    /\ retryConfig'.factor = retryConfig.factor
    /\ DOMAIN retryConfig' = DOMAIN retryConfig

\* C35: updateConfig replaces maxRetries, retryDelay and onRetry exactly when
\* its argument has them, a 0 included; an apiKey, baseUrl or timeout that is
\* missing or falsy leaves the current value alone; the backoff cap stays
\* 600000 and the factor stays 2
C35_OnlySuppliedSettingsChange ==
    [][/\ \A options \in PartialOptions :
             UpdateConfig(options) => OnlySupplied(options)
       /\ retryConfig'.maxDelay = 600000
       /\ retryConfig'.factor = 2]_vars

\* the limit and the delay were set to 0 and a throwing observer installed,
\* while key, base URL and timeout are those of the construction
C35_Witness ==
    /\ retryConfig =
          [maxRetries |-> 0, initialDelay |-> 0, maxDelay |-> 600000,
           factor |-> 2]
    /\ onRetry = "throws"
    /\ authorization = Bearer("k1")
    /\ baseURL = "https://a"
    /\ clientTimeout = 30000

\* ---------------------------------------------------------------------
\* The client of legacy/compress.ts, next to the client of index.ts
\* ---------------------------------------------------------------------

LegacyRetries == 2

\* variant: text that is missing or empty counts as one character
LegacyTextLengthOr1(msg) ==
    IF msg.message = NoNumber THEN 1
    ELSE IF msg.message = 0 THEN 1 ELSE msg.message

\* msg.message?.length || 0, for a message whose text may be missing
LegacyTextLength(msg) ==
    IF msg.message = NoNumber THEN 0
    ELSE IF msg.message = 0 THEN 0 ELSE msg.message

\* content.reduce((acc, msg) => acc + (msg.message?.length || 0), 0)
RECURSIVE LegacySumLen(_)
LegacySumLen(msgs) ==
    IF msgs = <<>> THEN 0
    ELSE IF Len(msgs) = 1 THEN LegacyTextLength(msgs[1])
    ELSE LET half == Len(msgs) \div 2
         IN  LegacySumLen(SubSeq(msgs, 1, half))
                + LegacySumLen(SubSeq(msgs, half + 1, Len(msgs)))

LegacyGetContentLength(content) ==
    IF content.kind = "string" THEN content.len
    ELSE LegacySumLen(content.msgs)

LegacyCalculateTimeout(content) ==
    LET messageCount == getMessageCount(content)
        totalLength  == LegacyGetContentLength(content)
        base == 10000
        byCount ==
            IF messageCount <= 10 THEN base + messageCount * 300
            ELSE IF messageCount <= 30
                 THEN base + 10 * 300 + (messageCount - 10) * 600
            ELSE IF messageCount <= 50
                 THEN base + 10 * 300 + 20 * 600 + (messageCount - 30) * 1000
            ELSE IF messageCount <= 100
                 THEN base + 10 * 300 + 20 * 600 + 20 * 1000
                           + (messageCount - 50) * 300
            ELSE 120000
        lengthFactor == CeilDiv(totalLength, 10000)
    IN  Min(byCount + lengthFactor * 1000, 120000)

\* compress(request) of the legacy client
LegacyCompress(c) ==
    /\ pc[c] = "init"
    /\ LET contentLength == LegacyGetContentLength(argRequest[c].content)
           messageCount  == getMessageCount(argRequest[c].content)
           req           == WithUserId(argRequest[c])
           t             == LegacyCalculateTimeout(req.content)
           warning       == IF Warns(messageCount, req)
                            THEN <<WarnEv>> ELSE <<>>
       IN  IF ExceedsMaximum(contentLength)
           THEN /\ result' = [result EXCEPT
                                ![c] = Thrown(NewError(TooLong, <<contentLength>>))]
                /\ pc' = [pc EXCEPT ![c] = "done"]
                /\ request' = [request EXCEPT ![c] = req]
                /\ UNCHANGED <<timeout, attempt, log>>
           ELSE /\ request' = [request EXCEPT ![c] = req]
                /\ timeout' = [timeout EXCEPT ![c] = t]
                /\ attempt' = [attempt EXCEPT ![c] = 1]
                /\ log' = [log EXCEPT ![c] = warning \o <<SendEv(req, t, 1)>>]
                /\ pc' = [pc EXCEPT ![c] = "sending"]
                /\ UNCHANGED result
    /\ UNCHANGED <<clientVars, argRequest>>

\* the awaited post of the legacy client resolves with `data`
LegacyPostResolves(c, data) ==
    /\ pc[c] = "sending"
    /\ IF IsProcessing(data)
       THEN IF RetriesLeft(attempt[c], retryConfig)
            THEN NotifyAndWait(c, ResponseEv(data), 200, "processing",
                     calculateProcessingDelay(
                         LegacyGetContentLength(request[c].content)))
            ELSE Finish(c, ResponseEv(data),
                        Thrown(NewError(StillProcessing,
                                        <<retryConfig.maxRetries>>)))
       ELSE Finish(c, ResponseEv(data), Returned(data))
    /\ UNCHANGED <<clientVars, argRequest, request, timeout>>

\* payloads whose messages all have a text, an empty one included
LegacyContents ==
    { Str(20000),
      Msgs(<<Msg(0, Undefined), Msg(3, "u1")>>),
      Msgs(<<Msg(0, Undefined), Msg(800000, Undefined)>>),
      Msgs(<<Msg(400000, "u1"), Msg(400001, "u2")>>) }

LegacyRequests ==
    [content : LegacyContents, include_metadata : {TRUE},
     webhook_url : {Undefined}, user_id : {Undefined}]

LegacyOptionSets ==
    [timeout : {NoNumber}, maxRetries : {LegacyRetries},
     retryDelay : {NoNumber, 60000}, onRetry : {"returns"}]

\* the same request is given to a client of index.ts (call 1) and to a
\* client of legacy/compress.ts (call 2), constructed with the same options
InitLegacy ==
    /\ \E options \in LegacyOptionSets :
          /\ retryConfig = ConstructRetryConfig(options)
          /\ onRetry = options.onRetry
          /\ clientTimeout = ConstructTimeout(options)
          /\ authorization = ConstructAuthorization(options)
          /\ baseURL = ConstructBaseURL(options)
    /\ pc = [c \in Calls |-> IF c <= 2 THEN "init" ELSE "idle"]
    /\ \E r \in LegacyRequests : argRequest = [c \in Calls |-> r]
    /\ request = argRequest
    /\ timeout = [c \in Calls |-> 0]
    /\ attempt = [c \in Calls |-> 1]
    /\ log = [c \in Calls |-> <<>>]
    /\ result = [c \in Calls |-> NoResult]
    /\ calc = NoCalc

LegacyBodies == {BodyFinal, BodyProcessing}
LegacyRejections ==
    {ResponseError(503, DataDetail("bad field")),
     ResponseError(500, DataString("plain text")),
     NetworkError, TimeoutError, PlainError("TypeError")}

\* a step of the call to the client of index.ts; Math.random() returns 0
IndexStep(c) ==
    /\ \/ Compress(c)
       \/ \E data \in LegacyBodies : PostResolves(c, data)
       \/ \E error \in LegacyRejections : PostRejects(c, error, 0)
       \/ WaitElapsed(c)
    /\ UNCHANGED calc

\* a step of the call to the legacy client, whose k-th post settles as the
\* k-th post of call 1 did; Math.random() returns 0
LegacyReplay(c) ==
    /\ \/ LegacyCompress(c)
       \/ /\ pc[c] = "sending"
          /\ LET k == Len(Received(c)) + 1
             IN  /\ k <= Len(Received(1))
                 /\ \/ /\ Received(1)[k].ev = "response"
                       /\ LegacyPostResolves(c, Received(1)[k].data)
                    \/ /\ Received(1)[k].ev = "error"
                       /\ PostRejects(c, Received(1)[k].error, 0)
       \/ WaitElapsed(c)
    /\ UNCHANGED calc

NextLegacy ==
    \/ IndexStep(1)
    \/ (Done(1) /\ LegacyReplay(2))

SpecLegacy == InitLegacy /\ [][NextLegacy]_vars

(***************************************************************************)
(* C36                                                                     *)
(***************************************************************************)
\* every message of the content has a text
AllHaveText(content) ==
    content.kind = "messages" =>
        \A k \in 1..Len(content.msgs) : content.msgs[k].message # NoNumber

\* C36: given a payload whose messages all have a text, the same options and
\* the same outcomes of the posts, the legacy client does what the client of
\* index.ts does: the same sends with the same body and timeout, the same
\* waits of the same length before jitter, the same observer calls, and the
\* same result or failure
C36_LegacyEquivalent ==
    (Done(1) /\ Started(2) /\ AllHaveText(argRequest[1].content)) =>
        /\ request[2] = request[1]
        /\ timeout[2] = timeout[1]
        /\ IsPrefix(log[2], log[1])
        /\ Done(2) => /\ log[2] = log[1]
                      /\ result[2] = result[1]

\* both clients sent twice and waited out a processing notice for a content
\* with an empty message, and both ended alike
C36_Witness ==
    /\ Done(1) /\ Done(2)
    /\ argRequest[1].content =
          Msgs(<<Msg(0, Undefined), Msg(800000, Undefined)>>)
    /\ NumSends(2) = 2
    /\ EventsOf(2, "wait") = <<WaitEv("processing", 54 * 60000)>>
    /\ NumObserverCalls(2) = 1
    /\ result[2] = result[1] /\ result[2].kind = "returned"

====
